---------------------------- MODULE Spec2Model ----------------------------
(***************************************************************************)
(* Model of the citation-graph pipeline of JugementReader:                 *)
(*   src/citation_map.py      build_citation_map and its helpers           *)
(*                                                                         *)
(* Python strings are modelled as sequences of one-character strings, so   *)
(* that whitespace normalisation, prefix tests and the citation regular    *)
(* expression are computed character by character.  Python's None is the   *)
(* one-element tuple None below, which is no string of characters.         *)
(***************************************************************************)
EXTENDS Integers, Sequences, FiniteSets, TLC

VARIABLES
    case_dirs,      \* build_citation_map: the list iter_case_dirs returned
    idx,            \* build_citation_map: position of the for loop in case_dirs
    cases_rows,     \* build_citation_map: accumulated node rows
    citation_rows,  \* build_citation_map: accumulated citation occurrence rows
    pc,             \* build_citation_map: "loop", "returned" or "raised"
    exc,            \* the exception that left build_citation_map, or "none"
    cases_df,       \* returned node table (a sequence of rows)
    citations_df,   \* returned raw occurrence table, with target_key
    edges_df,       \* returned aggregated edge table
    root,           \* document spec: the parsed tree handed to the extractors
    refs_out,       \* document spec: the list extract_case_refs returned
    dpc,            \* document spec: "parsed", "extracted", "rows" or "indexed"
    run,            \* two runs: which call of build_citation_map this is
    first_tables,   \* two runs: what the first call returned (or raised)
    para_index,     \* paragraph spec: the dict extract_paragraph_index returned
    repo_dirs,      \* repo_to_dataframes: the sorted case sub-directories
    include_paragraphs, \* repo_to_dataframes: its include_paragraphs argument
    cidx,           \* repo_to_dataframes: position of the for loop in repo_dirs
    case_rows,      \* repo_to_dataframes: accumulated case rows
    para_rows,      \* repo_to_dataframes: accumulated paragraph rows
    cpc,            \* repo_to_dataframes: "loop", "returned" or "raised"
    cexc,           \* the exception that left repo_to_dataframes, or "none"
    files,          \* build_court_repo: the files of each document's directory
    processed,      \* build_court_repo: number of feed entries handled so far
    feed,           \* iter_court_entries: the pages the Atom endpoint serves
    page,           \* iter_court_entries: the page number to fetch next
    fetched,        \* iter_court_entries: the page numbers fetched, in order
    yielded,        \* iter_court_entries: the entries yielded, in order
    fpc             \* iter_court_entries: "idle", "fetch" or "stopped"

coreVars == <<case_dirs, idx, cases_rows, citation_rows, pc, exc,
              cases_df, citations_df, edges_df, root, refs_out, dpc>>

twiceVars == <<run, first_tables>>

paraVars == <<para_index>>

repoVars == <<repo_dirs, include_paragraphs, cidx, case_rows, para_rows,
              cpc, cexc>>

dlVars == <<files, processed>>

feedVars == <<feed, page, fetched, yielded, fpc>>

extVars == <<twiceVars, paraVars, repoVars, dlVars, feedVars>>

vars == <<coreVars, extVars>>

\* the variables of the other operations, at rest
TwiceIdle == run = 1 /\ first_tables = <<>>

ParaIdle == para_index = <<>>

RepoIdle ==
    /\ repo_dirs = <<>>
    /\ include_paragraphs = FALSE
    /\ cidx = 1
    /\ case_rows = <<>>
    /\ para_rows = <<>>
    /\ cpc = "idle"
    /\ cexc = "none"

DlIdle == files = <<>> /\ processed = 0

FeedIdle ==
    /\ feed = <<>>
    /\ page = 1
    /\ fetched = <<>>
    /\ yielded = <<>>
    /\ fpc = "idle"

ExtIdle == TwiceIdle /\ ParaIdle /\ RepoIdle /\ DlIdle /\ FeedIdle

-----------------------------------------------------------------------------
(* Bounds of the model *)

\* longest corpus (number of case directories) explored
MaxDirs == 2

\* deepest nesting of wrapper elements around a reference in the document spec
MaxDepth == 3
MaxLabel == 3
MaxEntries == 3
MaxPages == 3
MaxFetches == 4

-----------------------------------------------------------------------------
(* Python values *)

None == <<"None">>

\* an absent integer (pandas NaN / Python None in a numeric column);
\* parsed paragraph numbers are never negative
NoNum == 0 - 1

Digits == {"0", "1", "2", "3", "4", "5", "6", "7", "8", "9"}

Uppers == {"A", "B", "C", "D", "E", "F", "G", "H", "I", "J", "K", "L", "M",
           "N", "O", "P", "Q", "R", "S", "T", "U", "V", "W", "X", "Y", "Z"}

\* the characters Python's \s and str.strip() take for whitespace
Whitespace == {" ", "\t", "\n", "\r"}

\* Python truthiness of an optional string
Truthy(s) == s # None /\ s # <<>>

\* Python's  a or b
Or(a, b) == IF Truthy(a) THEN a ELSE b

StartsWith(s, prefix) ==
    /\ Len(s) >= Len(prefix)
    /\ SubSeq(s, 1, Len(prefix)) = prefix

RECURSIVE LStrip(_)
LStrip(s) ==
    IF s # <<>> /\ Head(s) \in Whitespace THEN LStrip(Tail(s)) ELSE s

RECURSIVE RStrip(_)
RStrip(s) ==
    IF s # <<>> /\ s[Len(s)] \in Whitespace
    THEN RStrip(SubSeq(s, 1, Len(s) - 1))
    ELSE s

\* str.strip()
Strip(s) == RStrip(LStrip(s))

\* re.sub(r"\s+", " ", s): every maximal run of whitespace becomes one space
RECURSIVE CollapseWhitespace(_)
CollapseWhitespace(s) ==
    IF s = <<>> THEN <<>>
    ELSE IF Head(s) \in Whitespace
         THEN <<" ">> \o CollapseWhitespace(LStrip(s))
         ELSE <<Head(s)>> \o CollapseWhitespace(Tail(s))

\* _clean_text:  re.sub(r"\s+", " ", s or "").strip()
CleanText(s) == Strip(CollapseWhitespace(IF s = None THEN <<>> ELSE s))


Min(a, b) == IF a <= b THEN a ELSE b

\* first position at or after i whose character is not in cls
RECURSIVE SkipClass(_, _, _)
SkipClass(s, i, cls) ==
    IF i <= Len(s) /\ s[i] \in cls THEN SkipClass(s, i + 1, cls) ELSE i

-----------------------------------------------------------------------------
(* The case heuristic  re.search(r"\[\d{4}\]\s+[A-Z]{2,}.*\d+", canonical) *)

\*  .*\d+  from position j: a digit is reached before any newline
\*  ('.' does not match "\n")
RECURSIVE DigitReachable(_, _)
DigitReachable(s, j) ==
    IF j > Len(s) THEN FALSE
    ELSE IF s[j] \in Digits THEN TRUE
    ELSE IF s[j] = "\n" THEN FALSE
    ELSE DigitReachable(s, j + 1)

\* UppersThenNumber with [A-Z]{1,} for [A-Z]{2,}: one letter is enough
UppersThenNumber_OneLetter(s, a) ==
    /\ a <= Len(s)
    /\ s[a] \in Uppers
    /\ DigitReachable(s, a + 1)

\* at least two upper-case letters; the run may give letters back to  .*
UppersThenNumber(s, a) ==
    /\ a + 1 <= Len(s)
    /\ s[a] \in Uppers
    /\ s[a + 1] \in Uppers
    /\ DigitReachable(s, a + 2)

\* the pattern matched with its "[" at position i.  \s+ takes the whole run
\* of whitespace, since the next character has to be an upper-case letter
MatchCaseAt(s, i) ==
    /\ i + 5 <= Len(s)
    /\ s[i] = "["
    /\ \A k \in 1..4 : s[i + k] \in Digits
    /\ s[i + 5] = "]"
    /\ SkipClass(s, i + 6, Whitespace) > i + 6
    /\ UppersThenNumber(s, SkipClass(s, i + 6, Whitespace))

\* re.search: the pattern matches at some position
SearchCasePattern(s) == \E i \in 1..Len(s) : MatchCaseAt(s, i)

-----------------------------------------------------------------------------
(* The first run of digits of a number label:  re.search(r"(\d+)", num_txt) *)

DigitValue ==
    ("0" :> 0) @@ ("1" :> 1) @@ ("2" :> 2) @@ ("3" :> 3) @@ ("4" :> 4) @@
    ("5" :> 5) @@ ("6" :> 6) @@ ("7" :> 7) @@ ("8" :> 8) @@ ("9" :> 9)

\* int() of a non-empty string of digits
RECURSIVE ToInt(_)
ToInt(s) ==
    IF s = <<>> THEN 0
    ELSE 10 * ToInt(SubSeq(s, 1, Len(s) - 1)) + DigitValue[s[Len(s)]]

\* position of the first digit of s, or Len(s) + 1
FirstDigit(s) == SkipClass(s, 1, {s[k] : k \in 1..Len(s)} \ Digits)

ParseNumInt_FirstDigitOnly(num_txt) ==
    IF FirstDigit(num_txt) > Len(num_txt) THEN NoNum
    ELSE ToInt(SubSeq(num_txt, FirstDigit(num_txt), FirstDigit(num_txt)))

\* num_int of extract_paragraph_index
ParseNumInt(num_txt) ==
    IF FirstDigit(num_txt) > Len(num_txt) THEN NoNum
    ELSE ToInt(SubSeq(num_txt, FirstDigit(num_txt),
                      SkipClass(num_txt, FirstDigit(num_txt), Digits) - 1))

-----------------------------------------------------------------------------
(* The parsed document.                                                    *)
(* root.frbrThis  the string value of FRBRExpression/FRBRthis/@value       *)
(* root.nodes     the elements below the root in document order; a node is *)
(*   tag     local name of the element                                     *)
(*   eId     its eId attribute, or None                                    *)
(*   parent  position of its parent in nodes, 0 for the root element       *)
(*   href    (ref) its href attribute, or None                             *)
(*   attrib  (ref) its namespaced attributes in order: ns, local, value    *)
(*   text    its text content (all descendant text joined)                 *)
(*   num     (paragraph) the text of its first num child, << >> if none    *)
(***************************************************************************)

Elem(tag, eId, parent) ==
    [tag |-> tag, eId |-> eId, parent |-> parent, href |-> None,
     attrib |-> <<>>, text |-> <<>>, num |-> <<>>]

Paragraph(eId, parent, num, text) ==
    [tag |-> "paragraph", eId |-> eId, parent |-> parent, href |-> None,
     attrib |-> <<>>, text |-> text, num |-> num]

Ref(parent, href, attrib, text) ==
    [tag |-> "ref", eId |-> None, parent |-> parent, href |-> href,
     attrib |-> attrib, text |-> text, num |-> <<>>]

\* r.iterancestors(): the positions of the ancestors of node i, nearest first
RECURSIVE Ancestors(_, _)
Ancestors(nodes, i) ==
    IF nodes[i].parent = 0 THEN <<>>
    ELSE <<nodes[i].parent>> \o Ancestors(nodes, nodes[i].parent)

\* .//*[local-name()='judgmentBody']//X : X is a descendant of a judgmentBody
InBody(nodes, i) ==
    \E k \in 1..Len(Ancestors(nodes, i)) :
        nodes[Ancestors(nodes, i)[k]].tag = "judgmentBody"

\* the members of a set of positions in document order
RECURSIVE InOrder(_)
InOrder(S) ==
    IF S = {} THEN <<>>
    ELSE LET m == CHOOSE x \in S : \A y \in S : x <= y
         IN  <<m>> \o InOrder(S \ {m})

Para_ == <<"p", "a", "r", "a", "_">>
CaseType == <<"c", "a", "s", "e">>
LegislationType == <<"l", "e", "g", "i", "s", "l", "a", "t", "i", "o", "n">>

\* for k, v in r.attrib.items(): if k.endswith("}" + local): x = v
\* the value of the last namespaced attribute of that local name, else None
RECURSIVE LastAttr(_, _)
LastAttr(attrib, local) ==
    IF attrib = <<>> THEN None
    ELSE IF attrib[Len(attrib)].ns # "" /\ attrib[Len(attrib)].local = local
         THEN attrib[Len(attrib)].value
         ELSE LastAttr(SubSeq(attrib, 1, Len(attrib) - 1), local)

\* the filter of extract_case_refs:  uk_type == "case" or looks_like_case
KeepRef(uk_type, canonical) ==
    \/ uk_type = CaseType
    \/ (Truthy(canonical) /\ SearchCasePattern(canonical))

\* anc.get("eId", "").startswith("para_")
IsParaAnchor(node) == node.eId # None /\ StartsWith(node.eId, Para_)

\* NearestPara without the break: the last matching ancestor is kept
NearestPara_Outermost(nodes, ancs) ==
    LET hits == {k \in 1..Len(ancs) : IsParaAnchor(nodes[ancs[k]])}
    IN  IF hits = {} THEN None
        ELSE nodes[ancs[CHOOSE k \in hits : \A j \in hits : j <= k]].eId

\* the eId of the first ancestor in ancs whose eId starts with "para_"
RECURSIVE NearestPara(_, _)
NearestPara(nodes, ancs) ==
    IF ancs = <<>> THEN None
    ELSE IF IsParaAnchor(nodes[Head(ancs)]) THEN nodes[Head(ancs)].eId
    ELSE NearestPara(nodes, Tail(ancs))

\* the dict extract_case_refs appends for one kept ref
RefObservation(nodes, i) ==
    LET r         == nodes[i]
        href      == Strip(Or(r.href, <<>>))
        uk_type   == LastAttr(r.attrib, "type")
        canonical == LastAttr(r.attrib, "canonical")
        txt       == CleanText(r.text)
    IN  [href      |-> Or(href, None),
         uk_type   |-> uk_type,
         canonical |-> canonical,
         text      |-> IF ~Truthy(txt) /\ Truthy(canonical) THEN canonical ELSE txt,
         para_eId  |-> NearestPara(nodes, Ancestors(nodes, i))]

IsBodyRef(nodes, i) == nodes[i].tag = "ref" /\ InBody(nodes, i)

IsKeptRef(nodes, i) ==
    /\ IsBodyRef(nodes, i)
    /\ KeepRef(LastAttr(nodes[i].attrib, "type"),
               LastAttr(nodes[i].attrib, "canonical"))

\* extract_case_refs(root)
RECURSIVE MapObservations(_, _)
MapObservations(nodes, ps) ==
    IF ps = <<>> THEN <<>>
    ELSE <<RefObservation(nodes, Head(ps))>> \o MapObservations(nodes, Tail(ps))

extract_case_refs(r) ==
    MapObservations(r.nodes, InOrder({i \in 1..Len(r.nodes) : IsKeptRef(r.nodes, i)}))

\* the paragraphs extract_paragraph_index indexes
IsIndexedParagraph(nodes, i) ==
    /\ nodes[i].tag = "paragraph"
    /\ InBody(nodes, i)
    /\ nodes[i].eId # None
    /\ Truthy(nodes[i].eId)
    /\ StartsWith(nodes[i].eId, Para_)

\* extract_paragraph_index(root): eId -> (num_txt, num_int, p_text); a later
\* paragraph of the same eId overwrites an earlier one
extract_paragraph_index(r) ==
    LET ps   == InOrder({i \in 1..Len(r.nodes) : IsIndexedParagraph(r.nodes, i)})
        keys == {r.nodes[ps[k]].eId : k \in 1..Len(ps)}
        last(e) == ps[CHOOSE k \in 1..Len(ps) :
                        /\ r.nodes[ps[k]].eId = e
                        /\ \A j \in (k + 1)..Len(ps) : r.nodes[ps[j]].eId # e]
    IN  [e \in keys |->
            [num_txt |-> Or(CleanText(r.nodes[last(e)].num), None),
             num_int |-> ParseNumInt(CleanText(r.nodes[last(e)].num)),
             p_text  |-> CleanText(r.nodes[last(e)].text)]]

\* extract_case_identity(root)["tna_page"]
tna_page(r) == Or(CleanText(r.frbrThis), None)

-----------------------------------------------------------------------------
(* build_citation_map: the body of the loop over the case directories.     *)
(* A case directory d is                                                   *)
(*   d.meta_ok       meta.json loads as JSON                               *)
(*   d.xml_ok        data.xml parses to a tree (it is not empty or wholly  *)
(*                   unparseable)                                          *)
(*   d.document_uri  meta.get("document_uri")                              *)
(*   d.html          meta.get("links", {}).get("html")                     *)
(*   d.root          the tree parse_xml returns                            *)
(* The rows carry the columns the identity, the anchoring and the          *)
(* aggregation read; local_dir is the position of the directory.           *)
(***************************************************************************)

\* para_text[:400]
SnippetLen == 400

\* case_id = ident["tna_page"] or meta html link or meta document_uri
resolve_case_id(d) == Or(Or(tna_page(d.root), d.html), d.document_uri)

\* the dict appended to cases_rows
CaseRow(d, dir) ==
    [case_id      |-> resolve_case_id(d),
     document_uri |-> d.document_uri,
     tna_page     |-> tna_page(d.root),
     html_link    |-> d.html,
     local_dir    |-> dir]

\* para_map.get(para_eId, (None, None, None))
ParaLookup(para_map, para_eId) ==
    IF para_eId \in DOMAIN para_map THEN para_map[para_eId]
    ELSE [num_txt |-> None, num_int |-> NoNum, p_text |-> None]

\* the dict appended to citation_rows for one observation
CitationRow(case_id, document_uri, para_map, ref) ==
    LET p == ParaLookup(para_map, ref.para_eId)
    IN  [source_case_id          |-> case_id,
         source_document_uri     |-> document_uri,
         target_href             |-> ref.href,
         target_neutral_citation |-> ref.canonical,
         target_text             |-> ref.text,
         uk_type                 |-> ref.uk_type,
         source_paragraph_eId    |-> ref.para_eId,
         source_paragraph_num    |-> p.num_int,
         source_paragraph_label  |-> p.num_txt,
         context_snippet         |-> IF Truthy(p.p_text)
                                     THEN SubSeq(p.p_text, 1, Min(SnippetLen, Len(p.p_text)))
                                     ELSE None]

RECURSIVE MapCitationRows(_, _, _, _)
MapCitationRows(case_id, document_uri, para_map, refs) ==
    IF refs = <<>> THEN <<>>
    ELSE <<CitationRow(case_id, document_uri, para_map, Head(refs))>>
         \o MapCitationRows(case_id, document_uri, para_map, Tail(refs))

\* the citation rows one case directory contributes
CaseCitationRows(d) ==
    MapCitationRows(resolve_case_id(d), d.document_uri,
                    extract_paragraph_index(d.root), extract_case_refs(d.root))

-----------------------------------------------------------------------------
(* build_citation_map: the three tables built after the loop *)

\* drop_duplicates with keep="last"
RECURSIVE drop_duplicates_keep_last(_)
drop_duplicates_keep_last(rows) ==
    IF rows = <<>> THEN <<>>
    ELSE IF \E k \in 2..Len(rows) : rows[k].case_id = Head(rows).case_id
         THEN drop_duplicates_keep_last(Tail(rows))
         ELSE <<Head(rows)>> \o drop_duplicates_keep_last(Tail(rows))

\* DataFrame.drop_duplicates(subset=["case_id"]): keep="first"; absent
\* identifiers are duplicates of one another
RECURSIVE drop_duplicates(_)
drop_duplicates(rows) ==
    IF rows = <<>> THEN <<>>
    ELSE LET init == SubSeq(rows, 1, Len(rows) - 1)
             last == rows[Len(rows)]
         IN  IF \E k \in 1..Len(init) : init[k].case_id = last.case_id
             THEN drop_duplicates(init)
             ELSE drop_duplicates(init) \o <<last>>

\* target_href.fillna(target_neutral_citation), one row
target_key(row) ==
    IF row.target_href # None THEN row.target_href
    ELSE row.target_neutral_citation

RECURSIVE with_target_key(_)
with_target_key(rows) ==
    IF rows = <<>> THEN <<>>
    ELSE <<[target_key |-> target_key(Head(rows))] @@ Head(rows)>>
         \o with_target_key(Tail(rows))

\* GroupLabel with the anchoring paragraph as a third grouping column
GroupLabel_ByParagraph(row) ==
    <<row.source_case_id, row.target_key, row.source_paragraph_eId>>

\* the grouping label of groupby(["source_case_id", "target_key"])
GroupLabel(row) == <<row.source_case_id, row.target_key>>

\* dropna(subset=["target_key"]), then groupby, which leaves out every row
\* with an absent key column (dropna=True): the positions of the rows grouped
GroupedRows(df) ==
    {i \in 1..Len(df) : df[i].target_key # None /\ df[i].source_case_id # None}

\* nunique with dropna=False: an absent value is counted as one value
nunique_keepna(values) == Cardinality(values)

\* pd.Series.nunique: the distinct values, absent ones not counted
nunique(values) == Cardinality(values \ {None})

\* "min" / "max" of a numeric column: absent numbers skipped, absent when
\* the group has no number
NumMin(nums) ==
    IF nums \ {NoNum} = {} THEN NoNum
    ELSE CHOOSE m \in nums \ {NoNum} : \A n \in nums \ {NoNum} : m <= n

NumMax(nums) ==
    IF nums \ {NoNum} = {} THEN NoNum
    ELSE CHOOSE m \in nums \ {NoNum} : \A n \in nums \ {NoNum} : m >= n

\* .agg(...) over the rows of one group
Aggregate(df, label) ==
    LET G == {i \in GroupedRows(df) : GroupLabel(df[i]) = label}
    IN  [source_case_id |-> label[1],
         target_key     |-> label[2],
         count_total    |-> Cardinality(G),
         paras_count    |-> nunique({df[i].source_paragraph_eId : i \in G}),
         first_para     |-> NumMin({df[i].source_paragraph_num : i \in G}),
         last_para      |-> NumMax({df[i].source_paragraph_num : i \in G})]

\* edges_df, as the set of its rows (groupby orders them by key)
aggregate_edges(df) ==
    {Aggregate(df, label) : label \in {GroupLabel(df[i]) : i \in GroupedRows(df)}}

-----------------------------------------------------------------------------
(* The inputs explored *)

\* identifiers and links
UriC1 == <<"c", "1">>
UriH1 == <<"h", "1">>
UriD1 == <<"d", "1">>
UriD2 == <<"d", "2">>
HrefT1 == <<"t", "1">>
HrefT2 == <<"t", "2">>

\* canonical citation strings
Canon2019 == <<"[", "2", "0", "1", "9", "]", " ", "U", "K", "S", "C", " ", "2", "0">>
Canon2020 == <<"[", "2", "0", "2", "0", "]", " ", "E", "W", "C", "A", " ", "C", "i", "v", " ", "5">>
CanonHousingAct == <<"H", "o", "u", "s", "i", "n", "g", " ", "A", "c", "t", " ", "1", "9", "8", "8", ",", " ", "s", ".", "2", "1">>
CanonOneLetter == <<"[", "2", "0", "1", "9", "]", " ", "U", " ", "2", "0">>
CanonNoSpace == <<"[", "2", "0", "1", "9", "]", "U", "K", "S", "C", " ", "2", "0">>
CanonShortYear == <<"[", "2", "0", "1", "]", " ", "U", "K", "S", "C", " ", "2", "0">>
CanonNoNumber == <<"[", "2", "0", "1", "9", "]", " ", "U", "K", "S", "C">>
CanonLowerCourt == <<"[", "2", "0", "1", "9", "]", " ", "u", "k", "s", "c", " ", "2", "0">>
CanonEmbedded == <<"i", "n", " ", "[", "2", "0", "1", "9", "]", " ", " ", "\t", "E", "W", "C", "A", " ", "C", "i", "v", " ", "5">>
CanonNewline == <<"[", "2", "0", "1", "9", "]", " ", "U", "K", "S", "C", "\n", "2", "0">>

\* eIds
Para3 == <<"p", "a", "r", "a", "_", "3">>
Para7 == <<"p", "a", "r", "a", "_", "7">>
Para12 == <<"p", "a", "r", "a", "_", "1", "2">>
Para12Sub == <<"p", "a", "r", "a", "_", "1", "2", "_", "_", "s", "u", "b", "p", "a", "r", "a", "_", "1">>
Lvl1 == <<"l", "v", "l", "_", "1">>

UkAttr(local, value) == [ns |-> "uk", local |-> local, value |-> value]

\* a ref typed "case" pointing at href
CaseRef(parent, href) == Ref(parent, href, <<UkAttr("type", CaseType)>>, <<"x">>)

\* the judgment bodies of the corpus: node 1 is the judgmentBody
BodyNoRefs ==
    <<Elem("judgmentBody", None, 0),
      Paragraph(Para3, 1, <<"3">>, <<"a">>)>>

\* three citations of one target, two in paragraph 3 and one in paragraph 7
BodyThreeCitations ==
    <<Elem("judgmentBody", None, 0),
      Paragraph(Para3, 1, <<"3", ".">>, <<"a", " ", "b">>),
      CaseRef(2, HrefT1),
      Elem("i", None, 2),
      CaseRef(4, HrefT1),
      Paragraph(Para7, 1, <<" ", "7">>, <<"c">>),
      CaseRef(6, HrefT1),
      CaseRef(6, HrefT2)>>

\* a citation by canonical string only, one with no target at all, and one
\* outside every paragraph
BodyFallback ==
    <<Elem("judgmentBody", None, 0),
      Elem("level", Lvl1, 1),
      CaseRef(2, HrefT1),
      Paragraph(Para12, 2, <<"(", "1", "2", "A", ")">>, <<"d">>),
      Ref(4, None, <<UkAttr("canonical", Canon2020)>>, <<>>),
      Ref(4, None, <<UkAttr("type", CaseType)>>, <<"y">>),
      CaseRef(4, HrefT1)>>

\* a typed case reference whose canonical attribute is empty and whose href
\* is blank, in a paragraph whose label has no digit
BodyEmptyCanonical ==
    <<Elem("judgmentBody", None, 0),
      Paragraph(Para3, 1, <<"-">>, <<"e">>),
      Ref(2, <<" ">>, <<UkAttr("type", CaseType), UkAttr("canonical", <<>>)>>, <<"z">>),
      Ref(1, None, <<UkAttr("canonical", Canon2020)>>, <<"w">>)>>

\* a typed legislation reference whose canonical looks like a case, and an
\* untyped reference to a statute
BodyLegislation ==
    <<Elem("judgmentBody", None, 0),
      Paragraph(Para7, 1, <<"7">>, <<"f">>),
      Ref(2, HrefT2, <<UkAttr("type", LegislationType),
                       UkAttr("canonical", Canon2019)>>, <<"s">>),
      Ref(2, None, <<UkAttr("canonical", CanonHousingAct)>>, <<"h">>)>>

Bodies ==
    {BodyNoRefs, BodyThreeCitations, BodyFallback, BodyEmptyCanonical,
     BodyLegislation}

\* the identity sources of a case: FRBRthis, meta html link, meta document_uri
Identities ==
    {[frbrThis |-> <<" ">> \o UriC1 \o <<"\n">>, html |-> UriH1, document_uri |-> UriD1],
     [frbrThis |-> <<>>, html |-> UriC1, document_uri |-> UriD1],
     [frbrThis |-> <<>>, html |-> None, document_uri |-> UriD2],
     [frbrThis |-> <<" ">>, html |-> None, document_uri |-> None]}

\* the case directories iter_case_dirs can return: both files exist; either
\* may be unreadable
DirSet ==
    {[meta_ok |-> TRUE, xml_ok |-> TRUE, document_uri |-> id.document_uri,
      html |-> id.html, root |-> [frbrThis |-> id.frbrThis, nodes |-> b]] :
        id \in Identities, b \in Bodies}
    \cup
    {[meta_ok |-> ok[1], xml_ok |-> ok[2], document_uri |-> UriD1,
      html |-> UriH1, root |-> [frbrThis |-> UriC1, nodes |-> BodyThreeCitations]] :
        ok \in {<<FALSE, TRUE>>, <<TRUE, FALSE>>}}

\* the sequences over S of length at most n
RECURSIVE SeqsUpTo(_, _)
SeqsUpTo(S, n) ==
    IF n = 0 THEN {<<>>}
    ELSE SeqsUpTo(S, n - 1)
         \cup {Append(q, x) : q \in {p \in SeqsUpTo(S, n - 1) : Len(p) = n - 1}, x \in S}

NoRoot == [frbrThis |-> <<>>, nodes |-> <<>>]

-----------------------------------------------------------------------------
(* build_citation_map as a state machine *)

Init ==
    /\ case_dirs \in SeqsUpTo(DirSet, MaxDirs)
    /\ idx = 1
    /\ cases_rows = <<>>
    /\ citation_rows = <<>>
    /\ pc = "loop"
    /\ exc = "none"
    /\ cases_df = <<>>
    /\ citations_df = <<>>
    /\ edges_df = {}
    /\ root = NoRoot
    /\ refs_out = <<>>
    /\ dpc = "idle"
    /\ ExtIdle

\* one iteration of the loop: the directory loads and its rows are appended
ProcessCase ==
    /\ pc = "loop"
    /\ idx <= Len(case_dirs)
    /\ case_dirs[idx].meta_ok
    /\ case_dirs[idx].xml_ok
    /\ cases_rows' = Append(cases_rows, CaseRow(case_dirs[idx], idx))
    /\ citation_rows' = citation_rows \o CaseCitationRows(case_dirs[idx])
    /\ idx' = idx + 1
    /\ UNCHANGED <<case_dirs, pc, exc, cases_df, citations_df, edges_df,
                   root, refs_out, dpc>>
    /\ UNCHANGED extVars

\* load_meta raises on a meta.json that is not JSON: nothing catches it
LoadMetaRaises ==
    /\ pc = "loop"
    /\ idx <= Len(case_dirs)
    /\ ~case_dirs[idx].meta_ok
    /\ pc' = "raised"
    /\ exc' = "JSONDecodeError"
    /\ UNCHANGED <<case_dirs, idx, cases_rows, citation_rows, cases_df,
                   citations_df, edges_df, root, refs_out, dpc>>
    /\ UNCHANGED extVars

\* an empty or wholly unparseable data.xml: etree.fromstring raises
\* XMLSyntaxError, or the recovering parser returns None and root.xpath
\* raises AttributeError; nothing catches either
ParseXmlRaises ==
    /\ pc = "loop"
    /\ idx <= Len(case_dirs)
    /\ case_dirs[idx].meta_ok
    /\ ~case_dirs[idx].xml_ok
    /\ pc' = "raised"
    /\ exc' \in {"XMLSyntaxError", "AttributeError"}
    /\ UNCHANGED <<case_dirs, idx, cases_rows, citation_rows, cases_df,
                   citations_df, edges_df, root, refs_out, dpc>>
    /\ UNCHANGED extVars

\* after the loop, with at least one citation row: the tables are returned
BuildTables ==
    /\ pc = "loop"
    /\ idx > Len(case_dirs)
    /\ citation_rows # <<>>
    /\ cases_df' = drop_duplicates(cases_rows)
    /\ citations_df' = with_target_key(citation_rows)
    /\ edges_df' = aggregate_edges(with_target_key(citation_rows))
    /\ pc' = "returned"
    /\ UNCHANGED <<case_dirs, idx, cases_rows, citation_rows, exc,
                   root, refs_out, dpc>>
    /\ UNCHANGED extVars

\* after the loop, with no citation row: pd.DataFrame([]) has no column and
\* citations_df["target_href"] raises KeyError
BuildTablesRaises ==
    /\ pc = "loop"
    /\ idx > Len(case_dirs)
    /\ citation_rows = <<>>
    /\ pc' = "raised"
    /\ exc' = "KeyError"
    /\ UNCHANGED <<case_dirs, idx, cases_rows, citation_rows, cases_df,
                   citations_df, edges_df, root, refs_out, dpc>>
    /\ UNCHANGED extVars

Next ==
    \/ ProcessCase
    \/ LoadMetaRaises
    \/ ParseXmlRaises
    \/ BuildTables
    \/ BuildTablesRaises

Spec == Init /\ [][Next]_vars

-----------------------------------------------------------------------------
(* One document through extract_case_refs and the citation rows of the     *)
(* loop body: a single reference under a chain of wrapper elements         *)
(***************************************************************************)

\* the elements a reference may be nested in
Wrappers ==
    {Paragraph(Para12, 0, <<"1", "2">>, <<"t", " ", " ", "u">>),
     Paragraph(Lvl1, 0, <<"4">>, <<"v">>),
     Elem("subparagraph", Para12Sub, 0),
     Elem("span", None, 0)}

RefHrefs == {None, <<" ">>, HrefT1}

RefTypes == {None, CaseType, LegislationType, <<"d", "o", "c">>}

RefCanonicals ==
    {None, <<>>, Canon2019, Canon2020, CanonHousingAct, CanonOneLetter,
     CanonNoSpace, CanonShortYear, CanonNoNumber, CanonLowerCourt,
     CanonEmbedded, CanonNewline}

RefAttrib(type, canonical) ==
    (IF type = None THEN <<>> ELSE <<UkAttr("type", type)>>)
    \o (IF canonical = None THEN <<>> ELSE <<UkAttr("canonical", canonical)>>)

\* top, then each wrapper the child of the one before, then the reference
ChainDocument(top, ws, ref) ==
    <<Elem(top, None, 0)>>
    \o [k \in 1..Len(ws) |-> [ws[k] EXCEPT !.parent = k]]
    \o <<[ref EXCEPT !.parent = Len(ws) + 1]>>

DocSet ==
    {[frbrThis |-> UriC1,
      nodes |-> ChainDocument(top, ws, Ref(0, h, RefAttrib(t, c), <<"x">>))] :
        top \in {"judgmentBody", "header"},
        ws \in SeqsUpTo(Wrappers, MaxDepth),
        h \in RefHrefs, t \in RefTypes, c \in RefCanonicals}

DocInit ==
    /\ root \in DocSet
    /\ refs_out = <<>>
    /\ dpc = "parsed"
    /\ citation_rows = <<>>
    /\ case_dirs = <<>>
    /\ idx = 1
    /\ cases_rows = <<>>
    /\ pc = "idle"
    /\ exc = "none"
    /\ cases_df = <<>>
    /\ citations_df = <<>>
    /\ edges_df = {}
    /\ ExtIdle

\* refs = extract_case_refs(root)
ExtractCaseRefs ==
    /\ dpc = "parsed"
    /\ refs_out' = extract_case_refs(root)
    /\ dpc' = "extracted"
    /\ UNCHANGED <<case_dirs, idx, cases_rows, citation_rows, pc, exc,
                   cases_df, citations_df, edges_df, root>>
    /\ UNCHANGED extVars

\* for ref in refs: citation_rows.append(...), with the paragraph index
AppendCitationRows ==
    /\ dpc = "extracted"
    /\ citation_rows' = MapCitationRows(UriC1, UriD1,
                                        extract_paragraph_index(root), refs_out)
    /\ dpc' = "rows"
    /\ UNCHANGED <<case_dirs, idx, cases_rows, pc, exc, cases_df,
                   citations_df, edges_df, root, refs_out>>
    /\ UNCHANGED extVars

DocNext ==
    \/ ExtractCaseRefs
    \/ AppendCitationRows

SpecDoc == DocInit /\ [][DocNext]_vars

-----------------------------------------------------------------------------
(* Properties of build_citation_map, checked under Spec *)

Loadable(d) == d.meta_ok /\ d.xml_ok

Dirs == 1..Len(case_dirs)

\* the rows of a table, as a set
RowsOf(df) == {df[i] : i \in 1..Len(df)}

\* a row of citations_df without its derived target_key column
RawColumns(row) == [c \in DOMAIN row \ {"target_key"} |-> row[c]]

\* C1: a case directory whose meta.json or data.xml cannot be loaded does
\* not abort the build: no load exception leaves build_citation_map, and the
\* returned tables hold the node and the citation rows of every other
\* directory.
C1_UnloadableCaseIsSkipped ==
    (\E i \in Dirs : ~Loadable(case_dirs[i])) =>
        /\ exc \notin {"JSONDecodeError", "XMLSyntaxError", "AttributeError"}
        /\ pc = "returned" =>
              \A i \in Dirs : Loadable(case_dirs[i]) =>
                  /\ \E row \in RowsOf(cases_df) :
                        row.case_id = resolve_case_id(case_dirs[i])
                  /\ \A c \in RowsOf(CaseCitationRows(case_dirs[i])) :
                        \E row \in RowsOf(citations_df) : RawColumns(row) = c

\* the identifiers a case directory offers: its page URI, html link and
\* document_uri, when not empty
UsableIdentifiers(d) ==
    {x \in {tna_page(d.root), d.html, d.document_uri} : Truthy(x)}

\* C2: after a build, no node row has an absent case_id or one that is none
\* of the identifiers its directory offers, and no citation row has an
\* absent source_case_id.
C2_NoRowWithoutIdentifier ==
    pc = "returned" =>
        /\ \A row \in RowsOf(cases_df) :
              row.case_id \in UsableIdentifiers(case_dirs[row.local_dir])
        /\ \A row \in RowsOf(citations_df) : row.source_case_id # None

\* C3: case_id is unique in the node table; every identifier a directory
\* resolves to has exactly one node row, the row of the first directory, in
\* processing order, that resolves to it.
C3_CaseIdUniqueFirstWins ==
    pc = "returned" =>
        /\ \A i, j \in 1..Len(cases_df) :
              cases_df[i].case_id = cases_df[j].case_id => i = j
        /\ \A k \in Dirs :
              \E row \in RowsOf(cases_df) :
                  /\ row.case_id = resolve_case_id(case_dirs[k])
                  /\ row.local_dir <= k
                  /\ row = CaseRow(case_dirs[row.local_dir], row.local_dir)
                  /\ \A j \in 1..(row.local_dir - 1) :
                        resolve_case_id(case_dirs[j]) # row.case_id

\* two directories resolved to one identifier by different routes, and one
\* node row was returned
C3_Witness ==
    /\ pc = "returned"
    /\ Len(case_dirs) = 2
    /\ resolve_case_id(case_dirs[1]) = resolve_case_id(case_dirs[2])
    /\ tna_page(case_dirs[1].root) # tna_page(case_dirs[2].root)
    /\ Len(cases_df) = 1

\* C4: the edge table has at most one row per (source_case_id, target_key).
C4_OneEdgePerPair ==
    pc = "returned" =>
        \A e1, e2 \in edges_df :
            (e1.source_case_id = e2.source_case_id /\ e1.target_key = e2.target_key)
                => e1 = e2

\* two directories of the same case cite the same target from several
\* paragraphs, and their occurrences share one edge
C4_Witness ==
    /\ pc = "returned"
    /\ Len(case_dirs) = 2
    /\ resolve_case_id(case_dirs[1]) = resolve_case_id(case_dirs[2])
    /\ \E e \in edges_df : e.count_total >= 4 /\ e.paras_count >= 2

\* the raw occurrences of one (source_case_id, target_key) pair
PairRows(src, key) ==
    {i \in 1..Len(citations_df) :
        citations_df[i].source_case_id = src /\ citations_df[i].target_key = key}

\* C5: every (source_case_id, target_key) pair of the raw occurrence table
\* with target_key present has an edge row whose count_total is the number of
\* raw rows of the pair and whose first_para / last_para are the least and
\* the greatest paragraph number of those rows, absent numbers ignored.
C5_EdgeCountsEveryOccurrence ==
    pc = "returned" =>
        \A i \in 1..Len(citations_df) :
            citations_df[i].target_key # None =>
                LET src  == citations_df[i].source_case_id
                    key  == citations_df[i].target_key
                    nums == {citations_df[j].source_paragraph_num :
                                j \in PairRows(src, key)} \ {NoNum}
                IN  \E e \in edges_df :
                        /\ e.source_case_id = src
                        /\ e.target_key = key
                        /\ e.count_total = Cardinality(PairRows(src, key))
                        /\ nums # {} => /\ e.first_para \in nums
                                        /\ e.last_para \in nums
                                        /\ \A n \in nums : e.first_para <= n /\ n <= e.last_para
                        /\ nums = {} => e.first_para = NoNum /\ e.last_para = NoNum

\* the anchors of the raw occurrences of an edge
EdgeAnchors(e) ==
    {citations_df[i].source_paragraph_eId :
        i \in PairRows(e.source_case_id, e.target_key)}

\* C6 as claimed: paras_count is the number of distinct anchors of the group,
\* an absent anchor counting as one value when some occurrence has none.
C6_ParasCountCountsAbsentAnchor ==
    pc = "returned" =>
        \A e \in edges_df : e.paras_count = Cardinality(EdgeAnchors(e))

\* C6 amended: paras_count is the number of distinct anchors that are present;
\* occurrences without an anchor add nothing to it.
C6_ParasCountSkipsAbsentAnchor ==
    pc = "returned" =>
        \A e \in edges_df : e.paras_count = Cardinality(EdgeAnchors(e) \ {None})

\* an edge some of whose occurrences are anchored and some are not
C6_Witness ==
    /\ pc = "returned"
    /\ \E e \in edges_df :
          /\ None \in EdgeAnchors(e)
          /\ EdgeAnchors(e) # {None}
          /\ e.paras_count >= 1

\* C7: target_key is the href if present, else the canonical string; an
\* occurrence with neither is in the raw table and in no edge; no edge has an
\* absent or empty target_key.
C7_TargetKeyPresentInEdges ==
    pc = "returned" =>
        /\ \A row \in RowsOf(citations_df) :
              row.target_key = (IF row.target_href # None THEN row.target_href
                                ELSE row.target_neutral_citation)
        /\ \A i \in Dirs : \A c \in RowsOf(CaseCitationRows(case_dirs[i])) :
              (~Truthy(c.target_href) /\ ~Truthy(c.target_neutral_citation)) =>
                  \E row \in RowsOf(citations_df) : RawColumns(row) = c
        /\ \A e \in edges_df : Truthy(e.target_key)
        /\ \A e \in edges_df :
              \E i \in PairRows(e.source_case_id, e.target_key) :
                  Truthy(citations_df[i].target_href)
                  \/ Truthy(citations_df[i].target_neutral_citation)

-----------------------------------------------------------------------------
(* Properties of extract_case_refs, checked under SpecDoc *)

\* the reference of the document: its last node
TheRef == root.nodes[Len(root.nodes)]

RefPos == Len(root.nodes)

TypeOf(r) == LastAttr(r.attrib, "type")

CanonicalOf(r) == LastAttr(r.attrib, "canonical")

\* C8: the explicit type decides first: a body reference typed "case" is
\* emitted whatever its canonical, and a reference typed "legislation" is
\* never emitted as a case citation.
C8_ExplicitTypeWins ==
    dpc = "extracted" =>
        /\ (InBody(root.nodes, RefPos) /\ TypeOf(TheRef) = CaseType)
              => Len(refs_out) = 1
        /\ TypeOf(TheRef) = LegislationType => refs_out = <<>>

\* a bracketed 4-digit year at i, whitespace up to a, two upper-case
\* letters at a, and a digit at some later position m
CitationShapeAt(s, i, a, m) ==
    /\ s[i] = "["
    /\ i + 5 <= Len(s)
    /\ \A k \in (i + 1)..(i + 4) : s[k] \in Digits
    /\ s[i + 5] = "]"
    /\ a > i + 6
    /\ \A k \in (i + 6)..(a - 1) : s[k] \in Whitespace
    /\ a + 1 <= Len(s)
    /\ s[a] \in Uppers
    /\ s[a + 1] \in Uppers
    /\ m >= a + 2
    /\ s[m] \in Digits

\* the canonical contains a bracketed year, whitespace, two or more
\* upper-case letters and, eventually, a number
HasCitationShape(s) ==
    /\ s # None
    /\ \E i, a, m \in 1..Len(s) : CitationShapeAt(s, i, a, m)

\* the same, the number on the same line as the letters
HasCitationShapeOnOneLine(s) ==
    /\ s # None
    /\ \E i, a, m \in 1..Len(s) :
          /\ CitationShapeAt(s, i, a, m)
          /\ \A k \in (a + 2)..(m - 1) : s[k] # "\n"

\* C9 as claimed: an untyped body reference is emitted if and only if its
\* canonical has the citation shape.
C9_UntypedKeptIffCitationShape ==
    (dpc = "extracted" /\ InBody(root.nodes, RefPos) /\ TypeOf(TheRef) = None) =>
        (Len(refs_out) = 1 <=> HasCitationShape(CanonicalOf(TheRef)))

\* C9 amended: ... if and only if its canonical has the citation shape with
\* no line break between the letters and the number.
C9_UntypedKeptIffCitationShapeOnOneLine ==
    (dpc = "extracted" /\ InBody(root.nodes, RefPos) /\ TypeOf(TheRef) = None) =>
        /\ Len(refs_out) = 1 <=> HasCitationShapeOnOneLine(CanonicalOf(TheRef))
        /\ Len(refs_out) <= 1

\* an untyped reference was kept for its canonical, and one was dropped
C9_Witness ==
    /\ dpc = "extracted"
    /\ InBody(root.nodes, RefPos)
    /\ TypeOf(TheRef) = None
    /\ CanonicalOf(TheRef) = CanonEmbedded
    /\ Len(refs_out) = 1
    /\ refs_out[1].canonical = CanonEmbedded

\* the ancestors of the reference whose eId begins with "para_", as
\* distances from the reference (1 is its parent)
AnchorDistances ==
    {k \in 1..Len(Ancestors(root.nodes, RefPos)) :
        LET e == root.nodes[Ancestors(root.nodes, RefPos)[k]].eId
        IN  e # None /\ Len(e) >= 5 /\ SubSeq(e, 1, 5) = <<"p", "a", "r", "a", "_">>}

\* C10: an emitted observation carries the eId of the nearest ancestor whose
\* eId begins with "para_"; with no such ancestor it is still recorded, with
\* para_eId None and no paragraph number, label or snippet.
C10_AnchorIsNearestParaAncestor ==
    (dpc = "rows" /\ refs_out # <<>>) =>
        /\ Len(citation_rows) = Len(refs_out)
        /\ citation_rows[1].source_paragraph_eId = refs_out[1].para_eId
        /\ \A k \in AnchorDistances :
              (\A j \in AnchorDistances : k <= j) =>
                  refs_out[1].para_eId
                      = root.nodes[Ancestors(root.nodes, RefPos)[k]].eId
        /\ AnchorDistances = {} =>
              /\ refs_out[1].para_eId = None
              /\ citation_rows[1].source_paragraph_num = NoNum
              /\ citation_rows[1].source_paragraph_label = None
              /\ citation_rows[1].context_snippet = None

\* a reference three levels inside paragraph para_12, under another element
\* whose eId does not anchor
C10_WitnessNested ==
    /\ dpc = "rows"
    /\ refs_out # <<>>
    /\ AnchorDistances = {3}
    /\ citation_rows[1].source_paragraph_eId = Para12
    /\ citation_rows[1].source_paragraph_num = 12

-----------------------------------------------------------------------------
(* repo_to_dataframes (database_converter.py).                             *)
(* A case sub-directory p is                                               *)
(*   p.dir         the case directory: meta.json and data.xml, as above    *)
(*   p.paragraphs  paragraphs.jsonl: whether the file exists, and its      *)
(*                 records (eId, num, text)                                *)
(* Its base name is fixed by its position in the sorted listing.           *)
(***************************************************************************)

DirDigits == <<"1", "2", "3", "4", "5", "6", "7", "8", "9">>

\* os.path.basename(case_path) of the k-th sub-directory
BaseName(k) == <<"d", "i", "r", "_", DirDigits[k]>>

\* meta = _load_json(meta_path) or {} ; document_uri = meta.get("document_uri")
MetaDocumentUri(d) == IF d.meta_ok THEN d.document_uri ELSE None

\* links = meta.get("links") or {} ; links.get("html")
MetaHtml(d) == IF d.meta_ok THEN d.html ELSE None

\* case_id = document_uri or os.path.basename(case_path)
repo_case_id(d, k) == Or(MetaDocumentUri(d), BaseName(k))

\* the dict appended to case_rows
RepoCaseRow(d, k) ==
    [case_id      |-> repo_case_id(d, k),
     document_uri |-> MetaDocumentUri(d),
     html_url     |-> MetaHtml(d),
     source_path  |-> k]

\* re.sub(r"[^\d]*", "", s): the digits of s
RECURSIVE OnlyDigits(_)
OnlyDigits(s) ==
    IF s = <<>> THEN <<>>
    ELSE (IF Head(s) \in Digits THEN <<Head(s)>> ELSE <<>>) \o OnlyDigits(Tail(s))

\* para_number before int(): cleaned when truthy, else left as it is
CleanedParaNumber(num) == IF Truthy(num) THEN OnlyDigits(num) ELSE num

\* the exception int(para_number) raises, or "none"
IntError(num) ==
    IF CleanedParaNumber(num) = None THEN "TypeError"
    ELSE IF CleanedParaNumber(num) = <<>> THEN "ValueError"
    ELSE "none"

\* the dict appended to para_rows for one record
ParaRow(case_id, p) ==
    [case_id     |-> case_id,
     eId         |-> p.eId,
     para_number |-> ToInt(CleanedParaNumber(p.num)),
     text        |-> p.text,
     text_len    |-> Len(p.text)]

RECURSIVE MapParaRows(_, _)
MapParaRows(case_id, recs) ==
    IF recs = <<>> THEN <<>>
    ELSE <<ParaRow(case_id, Head(recs))>> \o MapParaRows(case_id, Tail(recs))

\* the position of the first record int() cannot convert, or 0
FirstBadRecord(recs) ==
    LET bad == {k \in 1..Len(recs) : IntError(recs[k].num) # "none"}
    IN  IF bad = {} THEN 0 ELSE CHOOSE k \in bad : \A j \in bad : k <= j

\* the exception the paragraph part of one iteration raises, or "none":
\* open() on a missing paragraphs.jsonl, else int() on the first record it
\* cannot convert
ParagraphsError(p) ==
    IF ~p.paragraphs.exists THEN "FileNotFoundError"
    ELSE IF FirstBadRecord(p.paragraphs.records) = 0 THEN "none"
    ELSE IntError(p.paragraphs.records[FirstBadRecord(p.paragraphs.records)].num)

\* the records converted before the paragraph part raises
ConvertedBeforeError(p) ==
    IF ~p.paragraphs.exists THEN <<>>
    ELSE SubSeq(p.paragraphs.records, 1, FirstBadRecord(p.paragraphs.records) - 1)

\* the paragraph records of the corpus
RecPara3 == [eId |-> Para3, num |-> <<"3">>, text |-> <<"a", " ", "b">>]
RecPara12 == [eId |-> Para12, num |-> <<"(", "1", "2", "A", ")">>, text |-> <<"c">>]
RecNoNumber == [eId |-> Para7, num |-> <<>>, text |-> <<"d">>]
RecNoDigit == [eId |-> Para7, num |-> <<"-">>, text |-> <<"e">>]
RecNumAbsent == [eId |-> Para7, num |-> None, text |-> <<"f">>]

ParaFiles ==
    {[exists |-> FALSE, records |-> <<>>]}
    \cup
    {[exists |-> TRUE, records |-> r] :
        r \in {<<>>, <<RecPara3>>, <<RecPara3, RecPara12>>,
               <<RecPara3, RecNoNumber>>, <<RecNoDigit>>,
               <<RecNumAbsent, RecPara3>>}}

\* the case directories of the court directory
RepoCaseDirs ==
    {[meta_ok |-> m, xml_ok |-> TRUE, document_uri |-> id.document_uri,
      html |-> id.html, root |-> [frbrThis |-> id.frbrThis, nodes |-> BodyNoRefs]] :
        m \in {TRUE}, id \in Identities}
    \cup
    {[meta_ok |-> FALSE, xml_ok |-> TRUE, document_uri |-> UriD1,
      html |-> UriH1, root |-> [frbrThis |-> UriC1, nodes |-> BodyNoRefs]]}

RepoDirSet == {[dir |-> d, paragraphs |-> f] : d \in RepoCaseDirs, f \in ParaFiles}

CoreIdle ==
    /\ case_dirs = <<>>
    /\ idx = 1
    /\ cases_rows = <<>>
    /\ citation_rows = <<>>
    /\ pc = "idle"
    /\ exc = "none"
    /\ cases_df = <<>>
    /\ citations_df = <<>>
    /\ edges_df = {}
    /\ root = NoRoot
    /\ refs_out = <<>>
    /\ dpc = "idle"

RepoInit ==
    /\ repo_dirs \in SeqsUpTo(RepoDirSet, MaxDirs)
    /\ include_paragraphs \in BOOLEAN
    /\ cidx = 1
    /\ case_rows = <<>>
    /\ para_rows = <<>>
    /\ cpc = "loop"
    /\ cexc = "none"
    /\ CoreIdle
    /\ TwiceIdle
    /\ ParaIdle
    /\ DlIdle
    /\ FeedIdle

\* one iteration of the loop over the sub-directories
ConvertCase ==
    /\ cpc = "loop"
    /\ cidx <= Len(repo_dirs)
    /\ include_paragraphs => ParagraphsError(repo_dirs[cidx]) = "none"
    /\ case_rows' = Append(case_rows, RepoCaseRow(repo_dirs[cidx].dir, cidx))
    /\ para_rows' =
          IF include_paragraphs
          THEN para_rows \o MapParaRows(repo_case_id(repo_dirs[cidx].dir, cidx),
                                        repo_dirs[cidx].paragraphs.records)
          ELSE para_rows
    /\ cidx' = cidx + 1
    /\ UNCHANGED <<repo_dirs, include_paragraphs, cpc, cexc>>
    /\ UNCHANGED <<coreVars, twiceVars, paraVars, dlVars, feedVars>>

\* the paragraph part of an iteration raises: nothing catches it
ConvertCaseRaises ==
    /\ cpc = "loop"
    /\ cidx <= Len(repo_dirs)
    /\ include_paragraphs
    /\ ParagraphsError(repo_dirs[cidx]) # "none"
    /\ case_rows' = Append(case_rows, RepoCaseRow(repo_dirs[cidx].dir, cidx))
    /\ para_rows' = para_rows \o MapParaRows(repo_case_id(repo_dirs[cidx].dir, cidx),
                                             ConvertedBeforeError(repo_dirs[cidx]))
    /\ cpc' = "raised"
    /\ cexc' = ParagraphsError(repo_dirs[cidx])
    /\ UNCHANGED <<repo_dirs, include_paragraphs, cidx>>
    /\ UNCHANGED <<coreVars, twiceVars, paraVars, dlVars, feedVars>>

\* after the loop: cases_df and paragraphs_df are returned
ConvertReturn ==
    /\ cpc = "loop"
    /\ cidx > Len(repo_dirs)
    /\ cpc' = "returned"
    /\ UNCHANGED <<repo_dirs, include_paragraphs, cidx, case_rows, para_rows, cexc>>
    /\ UNCHANGED <<coreVars, twiceVars, paraVars, dlVars, feedVars>>

RepoNext ==
    \/ ConvertCase
    \/ ConvertCaseRaises
    \/ ConvertReturn

SpecRepo == RepoInit /\ [][RepoNext]_vars

-----------------------------------------------------------------------------
(* Properties of the case identifier *)

\* the identifier the resolution order gives a case directory: its page URI
\* when not empty after whitespace normalisation, else its html link when
\* not empty, else its document_uri
ResolutionOrder(frbrThis, html, document_uri) ==
    IF CleanText(frbrThis) # <<>> THEN CleanText(frbrThis)
    ELSE IF html # None /\ html # <<>> THEN html
    ELSE document_uri

\* C11: every case row carries the identifier of the resolution order:
\* FRBRthis, else the html link, else document_uri.
C11_ResolutionOrder ==
    \A k \in 1..Len(case_rows) :
        case_rows[k].case_id =
            ResolutionOrder(repo_dirs[k].dir.root.frbrThis,
                            MetaHtml(repo_dirs[k].dir),
                            MetaDocumentUri(repo_dirs[k].dir))

\* C11 in build_citation_map: every node row carries the identifier of the
\* resolution order.
C11_BuildFollowsResolutionOrder ==
    \A k \in 1..Len(cases_rows) :
        cases_rows[k].case_id =
            ResolutionOrder(case_dirs[k].root.frbrThis, case_dirs[k].html,
                            case_dirs[k].document_uri)

-----------------------------------------------------------------------------
(* build_citation_map called twice over the same corpus.  The corpus is    *)
(* unchanged, so iter_case_dirs returns the same list in the second call.  *)
(***************************************************************************)

\* what a call of build_citation_map left to its caller
Outcome ==
    [pc |-> pc, exc |-> exc, cases_df |-> cases_df,
     citations_df |-> citations_df, edges_df |-> edges_df]

StartRows_Keep(rows) == rows

\* cases_rows = [] ; citation_rows = []: a call starts from empty lists,
\* whatever an earlier call accumulated
StartRows(rows) == <<>>

TwiceInit ==
    /\ Init
    /\ pc = "loop"

\* the first call is over: its outcome is kept and the second call starts
Rerun ==
    /\ run = 1
    /\ pc \in {"returned", "raised"}
    /\ first_tables' = <<Outcome>>
    /\ run' = 2
    /\ idx' = 1
    /\ cases_rows' = StartRows(cases_rows)
    /\ citation_rows' = StartRows(citation_rows)
    /\ pc' = "loop"
    /\ exc' = "none"
    /\ cases_df' = <<>>
    /\ citations_df' = <<>>
    /\ edges_df' = {}
    /\ UNCHANGED <<case_dirs, root, refs_out, dpc>>
    /\ UNCHANGED <<paraVars, repoVars, dlVars, feedVars>>

TwiceNext ==
    \/ ProcessCase
    \/ LoadMetaRaises
    \/ ParseXmlRaises
    \/ BuildTables
    \/ BuildTablesRaises
    \/ Rerun

SpecTwice == TwiceInit /\ [][TwiceNext]_vars

-----------------------------------------------------------------------------
(* extract_paragraph_index on one document: a header paragraph, a body     *)
(* paragraph with a number label, and a paragraph nested in it.            *)
(***************************************************************************)

\* stands for the dash of a label such as U+2014: not a digit, not
\* whitespace
Dash == "-"

LabelChars == {"0", "1", "A", Dash, " "}

Label12A == <<"(", "1", "2", "A", ")">>

\* the number labels of the body paragraph
Labels == SeqsUpTo(LabelChars, MaxLabel) \cup {Label12A}

ParaA == <<"p", "a", "r", "a", "_", "a">>
Hdr1 == <<"h", "d", "r", "_", "1">>

\* the eId attributes of the paragraph elements
EIds == {Para3, Para12, Para12Sub, ParaA, Para_, Hdr1, <<>>}

ParaDocument(hdr, outer, inner, label, inner_label) ==
    [frbrThis |-> UriC1,
     nodes |-> <<Elem("header", None, 0),
                 Paragraph(hdr, 1, <<"1">>, <<"h">>),
                 Elem("judgmentBody", None, 0),
                 Paragraph(outer, 3, label, <<"a">>),
                 Elem("embeddedStructure", None, 4),
                 Paragraph(inner, 5, inner_label, <<"b">>)>>]

ParaDocSet ==
    {ParaDocument(hdr, outer, inner, label, inner_label) :
        hdr \in {Para7, Hdr1}, outer \in EIds,
        inner \in {Para3, Para12Sub, Hdr1}, label \in Labels,
        inner_label \in {<<"2">>, <<Dash>>}}

ParaInit ==
    /\ root \in ParaDocSet
    /\ para_index = <<>>
    /\ dpc = "parsed"
    /\ refs_out = <<>>
    /\ citation_rows = <<>>
    /\ case_dirs = <<>>
    /\ idx = 1
    /\ cases_rows = <<>>
    /\ pc = "idle"
    /\ exc = "none"
    /\ cases_df = <<>>
    /\ citations_df = <<>>
    /\ edges_df = {}
    /\ TwiceIdle
    /\ RepoIdle
    /\ DlIdle
    /\ FeedIdle

\* para_map = extract_paragraph_index(root)
ExtractParagraphIndex ==
    /\ dpc = "parsed"
    /\ para_index' = extract_paragraph_index(root)
    /\ dpc' = "indexed"
    /\ UNCHANGED <<case_dirs, idx, cases_rows, citation_rows, pc, exc,
                   cases_df, citations_df, edges_df, root, refs_out>>
    /\ UNCHANGED <<twiceVars, repoVars, dlVars, feedVars>>

ParaNext ==
    \/ ExtractParagraphIndex

SpecPara == ParaInit /\ [][ParaNext]_vars

-----------------------------------------------------------------------------
(* Properties of the paragraph index *)

\* the positions of the body paragraphs of root whose eId starts with para_
Para_Paragraphs ==
    {i \in 1..Len(root.nodes) :
        /\ root.nodes[i].tag = "paragraph"
        /\ InBody(root.nodes, i)
        /\ Len(root.nodes[i].eId) >= Len(Para_)
        /\ SubSeq(root.nodes[i].eId, 1, Len(Para_)) = Para_}

\* the paragraph that gives the index its entry for eId e: the last one
EntrySource(e) ==
    CHOOSE i \in Para_Paragraphs :
        /\ root.nodes[i].eId = e
        /\ \A j \in Para_Paragraphs : root.nodes[j].eId = e => j <= i

\* n is the integer value of the first run of digits of s, or s has no
\* digit and n is absent
IsFirstDigitRun(s, n) ==
    IF \A k \in 1..Len(s) : s[k] \notin Digits THEN n = NoNum
    ELSE \E a \in 1..Len(s) : \E b \in a..Len(s) :
            /\ \A k \in 1..(a - 1) : s[k] \notin Digits
            /\ \A k \in a..b : s[k] \in Digits
            /\ b = Len(s) \/ s[b + 1] \notin Digits
            /\ n = ToInt(SubSeq(s, a, b))

\* C13: every body paragraph whose eId starts with para_ is indexed, with or
\* without a digit in its number label, and its num_int is the value of the
\* first run of digits of the label, or absent when the label has no digit.
C13_NumIntIsFirstDigitRun ==
    dpc = "indexed" =>
        \A i \in Para_Paragraphs :
            /\ root.nodes[i].eId \in DOMAIN para_index
            /\ IsFirstDigitRun(
                  CleanText(root.nodes[EntrySource(root.nodes[i].eId)].num),
                  para_index[root.nodes[i].eId].num_int)

\* the label "(12A)" was indexed with num_int 12 and a label with no digit
\* was indexed with num_int absent
C13_Witness ==
    /\ dpc = "indexed"
    /\ root.nodes[4].eId = Para12
    /\ root.nodes[4].num = Label12A
    /\ Para12 \in DOMAIN para_index
    /\ para_index[Para12].num_int = 12
    /\ root.nodes[6].eId = Para3
    /\ root.nodes[6].num = <<Dash>>
    /\ Para3 \in DOMAIN para_index
    /\ para_index[Para3].num_int = NoNum

\* e has the form para_<digits>
IsPara_Digits(e) ==
    /\ Len(e) > Len(Para_)
    /\ SubSeq(e, 1, Len(Para_)) = Para_
    /\ \A k \in (Len(Para_) + 1)..Len(e) : e[k] \in Digits

\* C14: the keys of the paragraph index are exactly the eIds of the form
\* para_<digits> of the paragraph elements below the judgment body.
C14_KeysArePara_Digits ==
    dpc = "indexed" =>
        DOMAIN para_index =
            {root.nodes[i].eId : i \in {j \in 1..Len(root.nodes) :
                /\ root.nodes[j].tag = "paragraph"
                /\ InBody(root.nodes, j)
                /\ IsPara_Digits(root.nodes[j].eId)}}

-----------------------------------------------------------------------------
(* Properties of the end of build_citation_map *)

\* C16: once every case directory has been processed, build_citation_map
\* returns its tables; with no citation row the raw occurrence table and the
\* edge table it returns are empty.
C16_ReturnsTablesForEveryCorpus ==
    (pc # "loop" /\ idx > Len(case_dirs)) =>
        /\ pc = "returned"
        /\ citation_rows = <<>> => (citations_df = <<>> /\ edges_df = {})

-----------------------------------------------------------------------------
(* Properties of the paragraph table of repo_to_dataframes *)

\* a case directory as write_case_files leaves it: paragraphs.jsonl exists
\* and every record has a num string (possibly empty)
DownloaderWritten(p) ==
    /\ p.paragraphs.exists
    /\ \A k \in 1..Len(p.paragraphs.records) : p.paragraphs.records[k].num # None

RECURSIVE TotalRecords(_)
TotalRecords(dirs) ==
    IF dirs = <<>> THEN 0
    ELSE Len(Head(dirs).paragraphs.records) + TotalRecords(Tail(dirs))

\* C17: with include_paragraphs, over case directories written by the
\* downloader, repo_to_dataframes does not raise, and when it returns it has
\* emitted one paragraph row per paragraph record, whatever their num.
C17_ParagraphRowForEveryRecord ==
    (include_paragraphs /\ \A k \in 1..Len(repo_dirs) : DownloaderWritten(repo_dirs[k])) =>
        /\ cpc # "raised"
        /\ cpc = "returned" => Len(para_rows) = TotalRecords(repo_dirs)

-----------------------------------------------------------------------------
(* build_court_repo (national_archives_downloader.py): the loop over the   *)
(* feed entries.  files[uri] is the directory of the document uri:         *)
(*   files[uri].f[name]       state of the file name: "absent", "partial"  *)
(*                            (opened and not completely written) or       *)
(*                            "written", and the loop iteration whose      *)
(*                            fetch it was written from                    *)
(*   files[uri].content_hash  the content_hash stored in meta.json         *)
(* A later run of build_court_repo continues the same loop over further    *)
(* entries: nothing but the files survives a run.                          *)
(***************************************************************************)

\* the files of a case directory, in the order write_case_files writes them
WriteOrder == <<"data.xml", "text.txt", "meta.json", "paragraphs.jsonl", "references.json">>

FileNames == {WriteOrder[k] : k \in 1..Len(WriteOrder)}

WritePos(name) == CHOOSE k \in 1..Len(WriteOrder) : WriteOrder[k] = name

AbsentFile == [state |-> "absent", fetch |-> 0]

EmptyDir == [f |-> [n \in FileNames |-> AbsentFile], content_hash |-> None]

Hash1 == <<"h", "1">>
Hash2 == <<"h", "2">>

\* the entries a feed page can carry: tna:uri and tna:contenthash
DocUris == {UriD1, UriD2}
FeedEntries == [uri : DocUris, content_hash : {None, Hash1, Hash2}]

\* already_downloaded(base_dir, court, document_uri, content_hash)
already_downloaded(fs, document_uri, content_hash) ==
    IF fs[document_uri].f["meta.json"].state = "absent" THEN FALSE
    ELSE IF ~Truthy(content_hash) THEN TRUE
    ELSE IF fs[document_uri].f["meta.json"].state = "partial" THEN FALSE
    ELSE fs[document_uri].content_hash = content_hash

\* write_case_files up to its k-th file, from the fetch of iteration n; with
\* partial, the next file was opened and not completely written
WriteFiles(dir, k, n, content_hash, partial) ==
    [f |-> [name \in FileNames |->
               IF WritePos(name) <= k THEN [state |-> "written", fetch |-> n]
               ELSE IF partial /\ WritePos(name) = k + 1
                    THEN [state |-> "partial", fetch |-> n]
                    ELSE dir.f[name]],
     content_hash |->
        IF WritePos("meta.json") <= k THEN content_hash
        ELSE IF partial /\ WritePos("meta.json") = k + 1 THEN None
        ELSE dir.content_hash]

DownloadInit ==
    /\ files = [u \in DocUris |-> EmptyDir]
    /\ processed = 0
    /\ CoreIdle
    /\ TwiceIdle
    /\ ParaIdle
    /\ RepoIdle
    /\ FeedIdle

\* if already_downloaded(...): continue
SkipEntry ==
    /\ processed < MaxEntries
    /\ \E entry \in FeedEntries :
          already_downloaded(files, entry.uri, entry.content_hash)
    /\ processed' = processed + 1
    /\ UNCHANGED files
    /\ UNCHANGED <<coreVars, twiceVars, paraVars, repoVars, feedVars>>

\* fetch, parse and write_case_files succeed
DownloadEntry ==
    /\ processed < MaxEntries
    /\ \E entry \in FeedEntries :
          /\ ~already_downloaded(files, entry.uri, entry.content_hash)
          /\ files' = [files EXCEPT ![entry.uri] =
                          WriteFiles(@, Len(WriteOrder), processed + 1,
                                     entry.content_hash, FALSE)]
    /\ processed' = processed + 1
    /\ UNCHANGED <<coreVars, twiceVars, paraVars, repoVars, feedVars>>

\* fetch, parse or write_case_files raises after k files were written; the
\* except clauses of the loop print the error and the loop goes on
DownloadFails ==
    /\ processed < MaxEntries
    /\ \E entry \in FeedEntries, k \in 0..(Len(WriteOrder) - 1), partial \in BOOLEAN :
          /\ ~already_downloaded(files, entry.uri, entry.content_hash)
          /\ files' = [files EXCEPT ![entry.uri] =
                          WriteFiles(@, k, processed + 1, entry.content_hash, partial)]
    /\ processed' = processed + 1
    /\ UNCHANGED <<coreVars, twiceVars, paraVars, repoVars, feedVars>>

DownloadNext ==
    \/ SkipEntry
    \/ DownloadEntry
    \/ DownloadFails

SpecDownload == DownloadInit /\ [][DownloadNext]_vars

-----------------------------------------------------------------------------
(* Properties of the downloaded directories *)

\* C15: a document for which already_downloaded returns True has its five
\* files completely written, all from the same fetch.
C15_DownloadedMeansComplete ==
    \A u \in DocUris, h \in {None, Hash1, Hash2} :
        already_downloaded(files, u, h) =>
            \A name \in FileNames :
                /\ files[u].f[name].state = "written"
                /\ files[u].f[name].fetch = files[u].f["meta.json"].fetch

-----------------------------------------------------------------------------
(* iter_court_entries: the Atom feed is a sequence of pages, page k being  *)
(* what fetch_atom_page returns for page=k:                                *)
(*   feed[k].entries  its entries, in feed order                           *)
(*   feed[k].links    its atom:link children (rel, href), in order         *)
(***************************************************************************)

PageEq == <<"p", "a", "g", "e", "=">>

\* re.search(r"[?&]page=(\d+)", href): the positions where the pattern matches
PageMatches(href) ==
    {i \in 1..Len(href) :
        /\ href[i] \in {"?", "&"}
        /\ i + Len(PageEq) + 1 <= Len(href)
        /\ SubSeq(href, i + 1, i + Len(PageEq)) = PageEq
        /\ href[i + Len(PageEq) + 1] \in Digits}

\* int(m.group(1)) of the leftmost match, or absent
PageParam(href) ==
    IF PageMatches(href) = {} THEN NoNum
    ELSE LET i == CHOOSE x \in PageMatches(href) : \A y \in PageMatches(href) : x <= y
             a == i + Len(PageEq) + 1
         IN  ToInt(SubSeq(href, a, SkipClass(href, a, Digits) - 1))

\* find_next_page(feed_xml): the page number of the first rel="next" link
\* whose href carries one, else None
RECURSIVE find_next_page(_)
find_next_page(links) ==
    IF links = <<>> THEN NoNum
    ELSE IF Head(links).rel = "next" /\ PageParam(Head(links).href) # NoNum
         THEN PageParam(Head(links).href)
         ELSE find_next_page(Tail(links))

\* if not next_page: break
StopsAt(links) == find_next_page(links) = NoNum \/ find_next_page(links) = 0

\* hrefs of feed links
HrefPage(n) == <<"?", "c", "=", "x", "&", "p", "a", "g", "e", "=", DirDigits[n]>>
HrefPerPage == <<"?", "p", "e", "r", "_", "p", "a", "g", "e", "=", "5">>

NextLink(n) == [rel |-> "next", href |-> HrefPage(n)]

\* the link lists page k of an n-page feed can carry
LinkLists(k, n) ==
    {<<>>, <<[rel |-> "self", href |-> HrefPage(k)]>>,
     <<[rel |-> "next", href |-> HrefPerPage]>>}
    \cup {<<[rel |-> "self", href |-> HrefPage(k)], NextLink(t)>> : t \in 1..n}

\* the entries of page k: k - 1 entries
PageEntries(k) == [j \in 1..(k - 1) |-> <<"d", DirDigits[k], DirDigits[j]>>]

Feeds ==
    UNION {{[k \in 1..n |-> [entries |-> PageEntries(k), links |-> l[k]]] :
               l \in {m \in [1..n -> UNION {LinkLists(k, n) : k \in 1..n}] :
                         \A k \in 1..n : m[k] \in LinkLists(k, n)}} :
           n \in 1..MaxPages}

FeedInit ==
    /\ feed \in Feeds
    /\ page \in 1..Len(feed)
    /\ fetched = <<>>
    /\ yielded = <<>>
    /\ fpc = "fetch"
    /\ CoreIdle
    /\ TwiceIdle
    /\ ParaIdle
    /\ RepoIdle
    /\ DlIdle

\* one turn of the while loop that ends with page = next_page
FetchPage ==
    /\ fpc = "fetch"
    /\ Len(fetched) < MaxFetches
    /\ ~StopsAt(feed[page].links)
    /\ fetched' = Append(fetched, page)
    /\ yielded' = yielded \o feed[page].entries
    /\ page' = find_next_page(feed[page].links)
    /\ UNCHANGED <<feed, fpc>>
    /\ UNCHANGED <<coreVars, twiceVars, paraVars, repoVars, dlVars>>

\* the turn of the while loop that ends with break
FetchLastPage ==
    /\ fpc = "fetch"
    /\ Len(fetched) < MaxFetches
    /\ StopsAt(feed[page].links)
    /\ fetched' = Append(fetched, page)
    /\ yielded' = yielded \o feed[page].entries
    /\ fpc' = "stopped"
    /\ UNCHANGED <<feed, page>>
    /\ UNCHANGED <<coreVars, twiceVars, paraVars, repoVars, dlVars>>

FeedNext ==
    \/ FetchPage
    \/ FetchLastPage

SpecFeed == FeedInit /\ [][FeedNext]_vars

-----------------------------------------------------------------------------
(* Properties of the feed iteration *)

RECURSIVE EntriesOfPages(_)
EntriesOfPages(pages) ==
    IF pages = <<>> THEN <<>>
    ELSE feed[Head(pages)].entries \o EntriesOfPages(Tail(pages))

\* page k has a rel="next" link whose href carries a page number
HasNextPageNumber(k) ==
    \E i \in 1..Len(feed[k].links) :
        /\ feed[k].links[i].rel = "next"
        /\ PageMatches(feed[k].links[i].href) # {}

\* C18: iter_court_entries fetches no page number twice (so it fetches at
\* most as many pages as the feed has and terminates), has yielded the
\* entries of the fetched pages once each in feed order, goes on after a
\* page with a next page number, and stops at the first page without one.
C18_NoPageFetchedTwice ==
    /\ \A i, j \in 1..Len(fetched) : fetched[i] = fetched[j] => i = j
    /\ Len(fetched) <= Len(feed)
    /\ yielded = EntriesOfPages(fetched)
    /\ \A i \in 1..(Len(fetched) - 1) : HasNextPageNumber(fetched[i])
    /\ fpc = "stopped" => ~HasNextPageNumber(fetched[Len(fetched)])

\* the feeds whose next links all lead to a later page
ForwardFeed ==
    \A k \in 1..Len(feed) :
        find_next_page(feed[k].links) = NoNum \/ find_next_page(feed[k].links) > k

\* C18 on feeds whose next links lead forward: the same property holds.
C18_ForwardFeedNoPageFetchedTwice == ForwardFeed => C18_NoPageFetchedTwice

=============================================================================
